---- MODULE Spec2Model ----
(***************************************************************************)
(* A model of secbot: the Dependabot alert aggregation pipeline            *)
(* (github_client.py), the recipient registry (storage.py), the command    *)
(* handlers (bot.py) and the scheduled job (monitor.py).                   *)
(*                                                                         *)
(* Python values are tagged records: None, str (a sequence of symbols),    *)
(* dict (a function from keys to values), and a raised exception.          *)
(***************************************************************************)
EXTENDS Integers, Sequences, FiniteSets, TLC

VARIABLES
    file,        \* storage.py: contents of activated_users.json
    clock,       \* storage.py: readings of datetime.now() taken so far
    regCalls,    \* history: number of activate_user calls per chat id
    lastCall,    \* history: the last storage call and what it returned
    caller,      \* who runs get_all_alerts: none, /update of a chat, the daily job
    pc,          \* position inside the running handler
    page,        \* get_user_repos: local `page`
    repos,       \* get_user_repos / get_all_alerts: local `repos`
    idx,         \* get_all_alerts: position of the `for repo in repos` loop
    all_alerts,  \* get_all_alerts: local `all_alerts`
    raised,      \* the exception that left get_all_alerts, or None
    reqLog,      \* history: the requests of this run and their responses
    report,      \* the caller's local `report`
    pending,     \* send_daily_report: chat ids of the loop still to visit
    sent,        \* history: messages the running (or last) run handed to Telegram
    rawAlert,    \* normalization: the raw alert being converted
    normalized,  \* normalization: its result
    tokenSent,   \* history: the chats that sent /activate with the token alone
    reg,         \* storage.py: the activate_user call under way in the bot, step by step
    returnedTrue \* history: the chat ids for which activate_user has returned True

vars == <<file, clock, regCalls, lastCall, caller, pc, page, repos, idx,
          all_alerts, raised, reqLog, report, pending, sent,
          rawAlert, normalized, tokenSent, reg, returnedTrue>>

storageVars == <<file, clock, regCalls, lastCall, reg, returnedTrue>>
runVars == <<caller, pc, page, repos, idx, all_alerts, raised, reqLog, report,
            pending, sent>>
normVars == <<rawAlert, normalized>>

----------------------------------------------------------------------------
(* Python values *)

None == [t |-> "None"]
PyStr(s) == [t |-> "str", v |-> s]
PyDict(d) == [t |-> "dict", v |-> d]
Raise(e) == [t |-> "exc", e |-> e]

EmptyDict == PyDict(<<>>)
EmptyStr == PyStr(<<>>)

IsExc(x) == x.t = "exc"

\* bool(x): None, "" and {} are false.
Truthy(x) ==
    CASE x.t = "None" -> FALSE
      [] x.t = "str" -> Len(x.v) > 0
      [] x.t = "dict" -> DOMAIN x.v # {}
      [] OTHER -> TRUE

\* x.get(k, default): AttributeError when x is None or a str.
Get(x, k, default) ==
    CASE x.t = "exc" -> x
      [] x.t = "dict" -> IF k \in DOMAIN x.v THEN x.v[k] ELSE default
      [] OTHER -> Raise("AttributeError")

\* x or y
Or(x, y) == IF IsExc(x) THEN x ELSE IF Truthy(x) THEN x ELSE y

----------------------------------------------------------------------------
(* Strings: sequences of symbols *)

Uppers == <<"A","B","C","D","E","F","G","H","I","J","K","L","M",
            "N","O","P","Q","R","S","T","U","V","W","X","Y","Z">>
Lowers == <<"a","b","c","d","e","f","g","h","i","j","k","l","m",
            "n","o","p","q","r","s","t","u","v","w","x","y","z">>

LowerChar(c) ==
    IF \E i \in DOMAIN Uppers : Uppers[i] = c
    THEN Lowers[CHOOSE i \in DOMAIN Uppers : Uppers[i] = c]
    ELSE c

\* x.lower(): AttributeError when x is None.
Lower(x) ==
    CASE x.t = "exc" -> x
      [] x.t = "str" -> PyStr([i \in DOMAIN x.v |-> LowerChar(x.v[i])])
      [] OTHER -> Raise("AttributeError")

Digits == <<"0","1","2","3","4","5","6","7","8","9">>

RECURSIVE NatToStr(_)
NatToStr(n) ==
    IF n < 10 THEN <<Digits[n + 1]>>
    ELSE NatToStr(n \div 10) \o <<Digits[(n % 10) + 1]>>

\* str(n) of an int
IntToStr(n) == IF n < 0 THEN <<"-">> \o NatToStr(-n) ELSE NatToStr(n)

DigitValue(c) == (CHOOSE i \in DOMAIN Digits : Digits[i] = c) - 1

RECURSIVE DigitsToNat(_)
DigitsToNat(s) ==
    IF s = <<>> THEN 0
    ELSE 10 * DigitsToNat(SubSeq(s, 1, Len(s) - 1)) + DigitValue(s[Len(s)])

\* int(s) of a decimal literal
StrToInt(s) ==
    IF s # <<>> /\ s[1] = "-" THEN -DigitsToNat(Tail(s)) ELSE DigitsToNat(s)

----------------------------------------------------------------------------
(* storage.py: the recipient registry *)

MaxRegisterCalls == 3

ChatIds == {42, -100}

\* Display names passed to activate_user.
Usernames == {None, PyStr(<<"ann">>), PyStr(<<"bob">>)}

NoFile == [t |-> "absent"]

\* The file between open(STORAGE_FILE, "w") and the end of json.dump: empty
\* or a part of the text, no JSON document either way.
PartialFile == [t |-> "partial"]

\* No activate_user call is under way.
NoCall == [pc |-> "none", chat_id |-> 0, username |-> None, data |-> [users |-> <<>>]]
JsonFile(data) == [t |-> "json", v |-> data]

\* load_users(): {"users": {}} when the file is missing or is not JSON.
load_users(f) ==
    IF f.t = "absent" THEN [users |-> <<>>]
    ELSE IF f.t = "json" THEN f.v
    ELSE [users |-> <<>>]

\* data.get("users", {})
UsersOf(data) == IF "users" \in DOMAIN data THEN data.users ELSE <<>>

\* save_users(data): the file is rewritten with the whole of data.
save_users(data) == JsonFile(data)

is_user_activated(f, chat_id) ==
    IntToStr(chat_id) \in DOMAIN UsersOf(load_users(f))

\* activate_user(chat_id, username) mutated: the membership test is dropped,
\* so an existing record is overwritten and True is returned again.
activate_user_overwrite(f, clk, chat_id, username) ==
    LET data == load_users(f)
        users == UsersOf(data)
        chat_id_str == IntToStr(chat_id)
        record == PyDict([username |-> username, activated_at |-> clk + 1])
        users2 == [k \in DOMAIN users \cup {chat_id_str} |->
                      IF k = chat_id_str THEN record ELSE users[k]]
    IN  [ret |-> TRUE, file |-> save_users([users |-> users2]), clock |-> clk + 1]

\* activate_user(chat_id, username) mutated: for an id already registered
\* the display name of its record is replaced and saved, False is returned.
activate_user_rename(f, clk, chat_id, username) ==
    LET data == load_users(f)
        users == UsersOf(data)
        chat_id_str == IntToStr(chat_id)
        record == PyDict([username |-> username, activated_at |-> clk + 1])
        users2 == [k \in DOMAIN users \cup {chat_id_str} |->
                      IF k = chat_id_str THEN record ELSE users[k]]
        renamed == [users EXCEPT ![chat_id_str] =
                       PyDict([username |-> username, activated_at |-> @.v.activated_at])]
    IN  IF chat_id_str \in DOMAIN users
        THEN [ret |-> FALSE, file |-> save_users([users |-> renamed]), clock |-> clk]
        ELSE [ret |-> TRUE, file |-> save_users([users |-> users2]), clock |-> clk + 1]

\* activate_user(chat_id, username): the value returned, the file and the
\* clock after the call.
activate_user(f, clk, chat_id, username) ==
    LET data == load_users(f)
        users == UsersOf(data)
        chat_id_str == IntToStr(chat_id)
        record == PyDict([username |-> username, activated_at |-> clk + 1])
        users2 == [k \in DOMAIN users \cup {chat_id_str} |->
                      IF k = chat_id_str THEN record ELSE users[k]]
    IN  IF chat_id_str \in DOMAIN users
        THEN [ret |-> FALSE, file |-> f, clock |-> clk]
        ELSE [ret |-> TRUE, file |-> save_users([users |-> users2]), clock |-> clk + 1]

get_all_activated_chat_ids(f) ==
    {StrToInt(k) : k \in DOMAIN UsersOf(load_users(f))}

get_user_info(f, chat_id) ==
    LET users == UsersOf(load_users(f))
        chat_id_str == IntToStr(chat_id)
    IN  IF chat_id_str \in DOMAIN users THEN users[chat_id_str] ELSE None

----------------------------------------------------------------------------
(* github_client.py: normalization of one raw alert *)

S_critical == <<"c","r","i","t","i","c","a","l">>
S_high == <<"h","i","g","h">>
S_moderate == <<"m","o","d","e","r","a","t","e">>
S_low == <<"l","o","w">>
S_unknown == <<"u","n","k","n","o","w","n">>

\* The fields of SecurityAlert.
AlertFields == {"repo_name", "package_name", "severity", "cve_id", "ghsa_id", "summary",
                "vulnerable_version", "patched_version", "url", "created_at"}

\* f"{owner}/{repo}"
FullName(owner, repo) == PyStr(owner \o <<"/">> \o repo)

\* The body of `for alert in data`: the SecurityAlert built from one raw
\* alert, or the exception the body raises.
NormalizeAlert(owner, repo, alert) ==
    LET security_advisory == Or(Get(alert, "security_advisory", None), EmptyDict)
        vulnerability == Or(Get(alert, "security_vulnerability", None), EmptyDict)
        first_patched == Get(vulnerability, "first_patched_version", None)
        patched_version ==
            IF IsExc(first_patched) THEN first_patched
            ELSE IF Truthy(first_patched) THEN Get(first_patched, "identifier", None)
            ELSE PyStr(<<"N/A">>)
        package == Or(Get(vulnerability, "package", None), EmptyDict)
        fields ==
            [t |-> "SecurityAlert",
             repo_name |-> FullName(owner, repo),
             package_name |-> Get(package, "name", PyStr(S_unknown)),
             severity |-> Get(security_advisory, "severity", PyStr(S_unknown)),
             cve_id |-> Or(Get(security_advisory, "cve_id", None), EmptyStr),
             ghsa_id |-> Or(Get(security_advisory, "ghsa_id", None), EmptyStr),
             summary |-> Get(security_advisory, "summary", PyStr(<<"No description">>)),
             vulnerable_version |-> Get(vulnerability, "vulnerable_version_range", EmptyStr),
             patched_version |-> patched_version,
             url |-> Get(alert, "html_url", EmptyStr),
             created_at |-> Get(alert, "created_at", EmptyStr)]
    IN  IF \E k \in AlertFields : IsExc(fields[k])
        THEN Raise("AttributeError")
        ELSE fields

(* Raw alerts: every optional key is missing, null or present. *)

Missing == [t |-> "missing"]
Opt(v) == {Missing, None, v}

\* The JSON object holding the keys of f that are not missing.
MakeDict(f) == PyDict([k \in {j \in DOMAIN f : f[j].t # "missing"} |-> f[k]])

AdvisoryObjs ==
    {MakeDict(f) : f \in [severity : Opt(PyStr(<<"H","i","g","h">>)),
                          cve_id : Opt(PyStr(<<"CVE-2024-1">>)),
                          ghsa_id : Opt(PyStr(<<"GHSA-aaaa">>)),
                          summary : Opt(PyStr(<<"Prototype pollution">>))]}

PackageObjs == {MakeDict(f) : f \in [name : Opt(PyStr(<<"lodash">>))]}

FirstPatchedObjs == {PyDict([identifier |-> PyStr(<<"4.17.21">>)])}

VulnerabilityObjs ==
    {MakeDict(f) : f \in [package : {Missing, None} \cup PackageObjs,
                          first_patched_version : {Missing, None} \cup FirstPatchedObjs,
                          vulnerable_version_range : {Missing, PyStr(<<"< 4.17.21">>)}]}

RawAlerts ==
    {MakeDict(f) : f \in [security_advisory : {Missing, None} \cup AdvisoryObjs,
                          security_vulnerability : {Missing, None} \cup VulnerabilityObjs,
                          html_url : Opt(PyStr(<<"https://github.com/a/1">>)),
                          created_at : Opt(PyStr(<<"2024-01-01T00:00:00Z">>))]}

----------------------------------------------------------------------------
(* github_client.py: fetching, bucketing and rendering *)

PER_PAGE == 100
REPORT_LIMIT == 10

Min(a, b) == IF a < b THEN a ELSE b

\* The page the API serves for a request with per_page and page parameters
\* (page 1 when the request names none).
ServerPage(items, per_page, pageNo) ==
    SubSeq(items, (pageNo - 1) * per_page + 1, Min(pageNo * per_page, Len(items)))

\* response.raise_for_status(): HTTPError for a 4xx or 5xx status.
RaisesForStatus(status) == status >= 400 /\ status < 600

PyList(s) == [t |-> "list", v |-> s]

\* get_dependabot_alerts(owner, repo), given what requests.get answered:
\* the list returned, or the exception that leaves the method.
get_dependabot_alerts(owner, repo, resp) ==
    IF resp.kind = "error" THEN PyList(<<>>)
    ELSE IF resp.status \in {403, 404} THEN PyList(<<>>)
    ELSE IF RaisesForStatus(resp.status) THEN PyList(<<>>)
    ELSE LET data == resp.body
             alerts == [i \in DOMAIN data |-> NormalizeAlert(owner, repo, data[i])]
         IN  IF \E i \in DOMAIN alerts : IsExc(alerts[i])
             THEN Raise("AttributeError")
             ELSE PyList(alerts)

SeverityKeys == {S_critical, S_high, S_moderate, S_low}

\* The all_alerts dict get_all_alerts starts from.
EmptyBuckets == PyDict([k \in SeverityKeys |-> <<>>])

\* The body of `for alert in alerts`, with the else branch left out: an
\* alert of unmatched severity is filed nowhere.
FileAlertDropUnknown(all, alert) ==
    LET severity == Lower(alert.severity)
    IN  IF IsExc(severity) THEN severity
        ELSE IF severity.v \in DOMAIN all.v
        THEN PyDict([all.v EXCEPT ![severity.v] = Append(@, alert)])
        ELSE all

\* The body of `for alert in alerts`, with the severity compared as it is.
FileAlertNoLower(all, alert) ==
    LET severity == alert.severity
    IN  IF severity.t # "str" THEN Raise("AttributeError")
        ELSE IF severity.v \in DOMAIN all.v
        THEN PyDict([all.v EXCEPT ![severity.v] = Append(@, alert)])
        ELSE PyDict([all.v EXCEPT ![S_low] = Append(@, alert)])

\* The body of `for alert in alerts`, with insert(0, alert) for append.
FileAlertPrepend(all, alert) ==
    LET severity == Lower(alert.severity)
    IN  IF IsExc(severity) THEN severity
        ELSE IF severity.v \in DOMAIN all.v
        THEN PyDict([all.v EXCEPT ![severity.v] = <<alert>> \o @])
        ELSE PyDict([all.v EXCEPT ![S_low] = <<alert>> \o @])

\* The body of `for alert in alerts`: all_alerts after filing one alert, or
\* the exception alert.severity.lower() raises.
FileAlert(all, alert) ==
    LET severity == Lower(alert.severity)
    IN  IF IsExc(severity) THEN severity
        ELSE IF severity.v \in DOMAIN all.v
        THEN PyDict([all.v EXCEPT ![severity.v] = Append(@, alert)])
        ELSE PyDict([all.v EXCEPT ![S_low] = Append(@, alert)])

\* `for alert in alerts` over one repository's alerts.
RECURSIVE FileAlerts(_, _)
FileAlerts(all, alerts) ==
    IF IsExc(all) \/ alerts = <<>> THEN all
    ELSE FileAlerts(FileAlert(all, Head(alerts)), Tail(alerts))

RECURSIVE Flatten(_)
Flatten(ss) == IF ss = <<>> THEN <<>> ELSE Head(ss) \o Flatten(Tail(ss))

\* sum(len(a) for a in alerts.values())
RECURSIVE SumLen(_, _)
SumLen(alerts, keys) ==
    IF keys = {} THEN 0
    ELSE LET k == CHOOSE x \in keys : TRUE
         IN  Len(alerts.v[k]) + SumLen(alerts, keys \ {k})

TotalAlerts(alerts) == SumLen(alerts, DOMAIN alerts.v)

\* The list of `for severity in [...]` written backwards.
SeverityOrderReversed == <<S_low, S_moderate, S_high, S_critical>>

\* The list literal of `for severity in [...]` in format_alerts_report.
SeverityOrder == <<S_critical, S_high, S_moderate, S_low>>

severity_emoji == [k \in SeverityKeys |->
    CASE k = S_critical -> "red" [] k = S_high -> "orange"
      [] k = S_moderate -> "yellow" [] OTHER -> "blue"]

severity_names == [k \in SeverityKeys |->
    CASE k = S_critical -> <<"C","R","I","T","I","C","A","L">>
      [] k = S_high -> <<"H","I","G","H">>
      [] k = S_moderate -> <<"M","O","D","E","R","A","T","E">>
      [] OTHER -> <<"L","O","W">>]

\* The lines appended for one alert of a section.
AlertLines(alert) ==
    LET cve == Or(Or(alert.cve_id, alert.ghsa_id), PyStr(<<"N/A">>))
    IN  <<[l |-> "package", v |-> alert.package_name],
          [l |-> "repo", v |-> alert.repo_name],
          [l |-> "id", v |-> cve],
          [l |-> "upgrade", v |-> alert.patched_version]>>
        \o (IF Truthy(alert.url) THEN <<[l |-> "link", v |-> alert.url]>> ELSE <<>>)
        \o <<[l |-> "blank"]>>

\* severity_alerts[:10]
Shown(severity_alerts) == SubSeq(severity_alerts, 1, Min(Len(severity_alerts), REPORT_LIMIT))

\* One iteration of `for severity in [...]`, with the slice left out.
SectionLinesNoLimit(alerts, severity) ==
    LET severity_alerts == IF severity \in DOMAIN alerts.v THEN alerts.v[severity] ELSE <<>>
    IN  IF severity_alerts = <<>> THEN <<>>
        ELSE <<[l |-> "section", emoji |-> severity_emoji[severity],
                name |-> severity_names[severity], n |-> Len(severity_alerts)],
               [l |-> "rule"]>>
             \o Flatten([i \in DOMAIN severity_alerts |-> AlertLines(severity_alerts[i])])
             \o (IF Len(severity_alerts) > REPORT_LIMIT
                 THEN <<[l |-> "more", n |-> Len(severity_alerts) - REPORT_LIMIT]>>
                 ELSE <<>>)

\* One iteration of `for severity in [...]`: the lines of that section.
SectionLines(alerts, severity) ==
    LET severity_alerts == IF severity \in DOMAIN alerts.v THEN alerts.v[severity] ELSE <<>>
        shown == Shown(severity_alerts)
    IN  IF severity_alerts = <<>> THEN <<>>
        ELSE <<[l |-> "section", emoji |-> severity_emoji[severity],
                name |-> severity_names[severity], n |-> Len(severity_alerts)],
               [l |-> "rule"]>>
             \o Flatten([i \in DOMAIN shown |-> AlertLines(shown[i])])
             \o (IF Len(severity_alerts) > REPORT_LIMIT
                 THEN <<[l |-> "more", n |-> Len(severity_alerts) - REPORT_LIMIT]>>
                 ELSE <<>>)

AllClear == <<[l |-> "all_clear"]>>

\* format_alerts_report(alerts) without the `total == 0` return.
format_alerts_report_no_clear(alerts) ==
    LET total == TotalAlerts(alerts)
    IN  <<[l |-> "title"], [l |-> "found", n |-> total], [l |-> "blank"]>>
        \o Flatten([i \in DOMAIN SeverityOrder |-> SectionLines(alerts, SeverityOrder[i])])
        \o <<[l |-> "recommendation"]>>

\* format_alerts_report(alerts): the lines of the text returned.
format_alerts_report(alerts) ==
    LET total == TotalAlerts(alerts)
    IN  IF total = 0 THEN AllClear
        ELSE <<[l |-> "title"], [l |-> "found", n |-> total], [l |-> "blank"]>>
             \o Flatten([i \in DOMAIN SeverityOrder |-> SectionLines(alerts, SeverityOrder[i])])
             \o <<[l |-> "recommendation"]>>

----------------------------------------------------------------------------
(* The GitHub API as the client sees it *)

Repo1 == [owner |-> [login |-> <<"acme">>], name |-> <<"api">>]
Repo2 == [owner |-> [login |-> <<"acme">>], name |-> <<"web">>]
RepoPool == {Repo1, Repo2}

\* The sequences without repetition over S: the pages a listing can serve.
SeqsNoDup(S) ==
    {q \in UNION {[1..n -> S] : n \in 0..Cardinality(S)} :
        \A i, j \in DOMAIN q : i # j => q[i] # q[j]}

ConnectionError == [kind |-> "error", status |-> 0, body |-> <<>>, open |-> <<>>]
HttpResponse(status, body, open) ==
    [kind |-> "response", status |-> status, body |-> body, open |-> open]

\* What GET /user/repos can answer once the repositories of `listed` were served.
RepoResponses(listed) ==
    {ConnectionError, HttpResponse(500, <<>>, <<>>)}
    \cup {HttpResponse(200, ServerPage(b, PER_PAGE, 1), <<>>) :
             b \in SeqsNoDup(RepoPool \ {listed[i] : i \in DOMAIN listed})}

Advisory(sev) ==
    PyDict([severity |-> sev, cve_id |-> PyStr(<<"CVE-2024-1">>),
            ghsa_id |-> PyStr(<<"GHSA-aaaa">>), summary |-> PyStr(<<"Prototype pollution">>)])

Vulnerability ==
    PyDict([package |-> PyDict([name |-> PyStr(<<"lodash">>)]),
            first_patched_version |-> PyDict([identifier |-> PyStr(<<"4.17.21">>)]),
            vulnerable_version_range |-> PyStr(<<"< 4.17.21">>)])

\* A complete alert with the given severity; its URL ends in number i.
AlertFull(sev, i) ==
    PyDict([security_advisory |-> Advisory(sev),
            security_vulnerability |-> Vulnerability,
            html_url |-> PyStr(<<"https://github.com/a/">> \o NatToStr(i)),
            created_at |-> PyStr(<<"2024-01-01T00:00:00Z">>)])

AlertBare == EmptyDict
AlertNulls == PyDict([security_advisory |-> None, security_vulnerability |-> None])
AlertNoFix(sev) ==
    PyDict([security_advisory |->
                PyDict([severity |-> sev, cve_id |-> None, ghsa_id |-> PyStr(<<"GHSA-bbbb">>)]),
            security_vulnerability |->
                PyDict([package |-> None, first_patched_version |-> None])])

\* n complete alerts of one severity, numbered 1..n.
ManyAlerts(sev, n) == [i \in 1..n |-> AlertFull(sev, i)]

\* The open alerts a repository can have on the server.
OpenAlertLists ==
    {<<>>,
     <<AlertFull(PyStr(<<"C","R","I","T","I","C","A","L">>), 1), AlertBare>>,
     <<AlertNulls, AlertNoFix(PyStr(<<"M","o","d","e","r","a","t","e">>)),
       AlertFull(PyStr(<<"h","I","g","H">>), 2), AlertFull(PyStr(<<>>), 3),
       AlertFull(PyStr(<<"b","o","g","u","s">>), 4), AlertFull(PyStr(S_low), 5)>>,
     <<AlertFull(None, 6)>>,
     ManyAlerts(PyStr(<<"C","r","i","t","i","c","a","l">>), REPORT_LIMIT),
     ManyAlerts(PyStr(S_high), PER_PAGE + 1)}

\* What GET /repos/{owner}/{repo}/dependabot/alerts can answer.
AlertResponses ==
    {ConnectionError}
    \cup {HttpResponse(st, <<>>, <<>>) : st \in {403, 404, 500}}
    \cup {HttpResponse(200, ServerPage(o, PER_PAGE, 1), o) : o \in OpenAlertLists}

----------------------------------------------------------------------------
(* github_client.py: get_all_alerts, one step per request *)

NoCaller == [kind |-> "none", chat |-> 0, chat_ids |-> {}]

\* The locals of a fresh get_all_alerts call; the histories start anew.
StartRun ==
    /\ pc' = "list"
    /\ page' = 1
    /\ repos' = <<>>
    /\ idx' = 0
    /\ all_alerts' = EmptyBuckets
    /\ raised' = None
    /\ reqLog' = <<>>
    /\ report' = <<>>
    /\ pending' = {}

\* A handler that calls no pipeline: the locals and histories of the run
\* that ended before it are dropped.
NoRun ==
    /\ UNCHANGED <<caller, pc>>
    /\ page' = 1
    /\ repos' = <<>>
    /\ idx' = 0
    /\ all_alerts' = EmptyBuckets
    /\ raised' = None
    /\ reqLog' = <<>>
    /\ report' = <<>>
    /\ pending' = {}

\* get_user_repos with the error of a failed page swallowed: the loop ends
\* and the pages received so far are returned.
ListPageSwallow(resp) ==
    /\ reqLog' = Append(reqLog, [kind |-> "repos", page |-> page, owner |-> <<>>, name |-> <<>>, resp |-> resp])
    /\ IF resp.kind = "error" \/ RaisesForStatus(resp.status) \/ resp.body = <<>>
       THEN /\ pc' = IF repos = <<>> THEN "returned" ELSE "fetch"
            /\ idx' = 1
            /\ UNCHANGED <<page, repos, raised>>
       ELSE /\ repos' = repos \o resp.body
            /\ page' = page + 1
            /\ UNCHANGED <<pc, idx, raised>>

\* One iteration of the loop of get_user_repos with `page += 1` left out:
\* the same page is requested again.
ListPageSamePage(resp) ==
    /\ reqLog' = Append(reqLog, [kind |-> "repos", page |-> page, owner |-> <<>>, name |-> <<>>, resp |-> resp])
    /\ IF resp.kind = "error"
       THEN /\ raised' = Raise("ConnectionError")
            /\ pc' = "raised"
            /\ UNCHANGED <<page, repos, idx>>
       ELSE IF RaisesForStatus(resp.status)
       THEN /\ raised' = Raise("HTTPError")
            /\ pc' = "raised"
            /\ UNCHANGED <<page, repos, idx>>
       ELSE IF resp.body = <<>>
       THEN /\ pc' = IF repos = <<>> THEN "returned" ELSE "fetch"
            /\ idx' = 1
            /\ UNCHANGED <<page, repos, raised>>
       ELSE /\ repos' = repos \o resp.body
            /\ UNCHANGED <<page, pc, idx, raised>>

\* One iteration of the loop of get_user_repos, given the answer to the page
\* request; after the empty page get_all_alerts goes on to its own loop.
ListPageStep(resp) ==
    /\ reqLog' = Append(reqLog, [kind |-> "repos", page |-> page, owner |-> <<>>, name |-> <<>>, resp |-> resp])
    /\ IF resp.kind = "error"
       THEN /\ raised' = Raise("ConnectionError")
            /\ pc' = "raised"
            /\ UNCHANGED <<page, repos, idx>>
       ELSE IF RaisesForStatus(resp.status)
       THEN /\ raised' = Raise("HTTPError")
            /\ pc' = "raised"
            /\ UNCHANGED <<page, repos, idx>>
       ELSE IF resp.body = <<>>
       THEN /\ pc' = IF repos = <<>> THEN "returned" ELSE "fetch"
            /\ idx' = 1
            /\ UNCHANGED <<page, repos, raised>>
       ELSE /\ repos' = repos \o resp.body
            /\ page' = page + 1
            /\ UNCHANGED <<pc, idx, raised>>

ListPage ==
    /\ pc = "list"
    /\ \E resp \in RepoResponses(repos) : ListPageStep(resp)
    /\ UNCHANGED <<caller, all_alerts, report, pending, sent>>
    /\ UNCHANGED <<storageVars, normVars, tokenSent>>

\* One iteration of `for repo in repos`, given the answer to its alert request.
FetchRepoStep(resp) ==
    LET repo == repos[idx]
        owner == repo.owner.login
        repo_name == repo.name
        alerts == get_dependabot_alerts(owner, repo_name, resp)
        filed == IF IsExc(alerts) THEN alerts ELSE FileAlerts(all_alerts, alerts.v)
    IN  /\ reqLog' = Append(reqLog, [kind |-> "alerts", page |-> 1, owner |-> owner,
                                     name |-> repo_name, resp |-> resp])
        /\ IF IsExc(filed)
           THEN /\ raised' = filed
                /\ pc' = "raised"
                /\ UNCHANGED <<all_alerts, idx>>
           ELSE /\ all_alerts' = filed
                /\ idx' = idx + 1
                /\ pc' = IF idx = Len(repos) THEN "returned" ELSE "fetch"
                /\ UNCHANGED raised

FetchRepo ==
    /\ pc = "fetch"
    /\ idx <= Len(repos)
    /\ \E resp \in AlertResponses : FetchRepoStep(resp)
    /\ UNCHANGED <<caller, page, repos, report, pending, sent>>
    /\ UNCHANGED <<storageVars, normVars, tokenSent>>

----------------------------------------------------------------------------
(* bot.py: the command handlers.  The bot handles one update at a time and  *)
(* /update blocks it for the whole of get_all_alerts.  The daily job is a   *)
(* process of its own: the bot's other handlers run while it is under way.  *)
(* The pipeline shares no state with the registry, so the runs of it by     *)
(* /update and by the daily job are not interleaved with each other.        *)
(* A reply changes no state of the program: the handlers compute theirs,   *)
(* and those of /update are recorded in `sent`.                             *)

ACTIVATION_TOKEN == <<"s3cret">>

\* context.args of /activate
ArgLists == {<<>>, <<ACTIVATION_TOKEN>>, <<<<"guess">>>>, <<ACTIVATION_TOKEN, ACTIVATION_TOKEN>>}

\* update.effective_user of each chat
UserOf == [c \in ChatIds |->
    IF c = 42 THEN [username |-> PyStr(<<"ann">>), first_name |-> PyStr(<<"Ann">>)]
    ELSE [username |-> None, first_name |-> PyStr(<<"Bob">>)]]

Reply(c, kind, text) == [chat |-> c, kind |-> kind, text |-> text, ok |-> TRUE]

BotFree == caller.kind # "update"

\* What a handler that runs no pipeline leaves of the run state: the daily
\* job's run is its own; a run that ended is forgotten.
BesideRun ==
    IF pc = "idle" THEN NoRun /\ sent' = <<>> ELSE UNCHANGED runVars

\* The reply of /start.
start_reply(c) ==
    Reply(c, IF is_user_activated(file, c) THEN "welcome_back" ELSE "welcome", <<>>)

start_command(c) ==
    /\ BotFree
    /\ start_reply(c).ok
    /\ BesideRun
    /\ UNCHANGED <<storageVars, normVars, tokenSent>>

\* activate_command with the comparison of the token left out.
activate_command_any_token(c, args) ==
    /\ BotFree
    /\ IF is_user_activated(file, c)
       THEN /\ Reply(c, "already_activated", <<>>).ok
            /\ UNCHANGED storageVars
       ELSE IF Len(args) # 1
       THEN /\ Reply(c, "usage", <<>>).ok
            /\ UNCHANGED storageVars
       ELSE LET user == UserOf[c]
                username == Or(user.username, user.first_name)
                r == activate_user(file, clock, c, username)
            IN  /\ file' = r.file
                /\ clock' = r.clock
                /\ regCalls' = [regCalls EXCEPT ![c] = @ + 1]
                /\ lastCall' = [op |-> "activate_user", chat_id |-> c, ret |-> r.ret,
                               username |-> username]
                /\ returnedTrue' = IF r.ret THEN returnedTrue \cup {c} ELSE returnedTrue
                /\ UNCHANGED reg
                /\ Reply(c, IF r.ret THEN "activated" ELSE "activated_before", <<>>).ok
    /\ tokenSent' = IF args = <<ACTIVATION_TOKEN>> THEN tokenSent \cup {c} ELSE tokenSent
    /\ BesideRun
    /\ UNCHANGED normVars

activate_command(c, args) ==
    /\ BotFree
    /\ IF is_user_activated(file, c)
       THEN /\ Reply(c, "already_activated", <<>>).ok
            /\ UNCHANGED storageVars
       ELSE IF Len(args) # 1
       THEN /\ Reply(c, "usage", <<>>).ok
            /\ UNCHANGED storageVars
       ELSE IF args[1] # ACTIVATION_TOKEN
       THEN /\ Reply(c, "wrong_token", <<>>).ok
            /\ UNCHANGED storageVars
       ELSE LET user == UserOf[c]
                username == Or(user.username, user.first_name)
                r == activate_user(file, clock, c, username)
            IN  /\ file' = r.file
                /\ clock' = r.clock
                /\ regCalls' = [regCalls EXCEPT ![c] = @ + 1]
                /\ lastCall' = [op |-> "activate_user", chat_id |-> c, ret |-> r.ret,
                               username |-> username]
                /\ returnedTrue' = IF r.ret THEN returnedTrue \cup {c} ELSE returnedTrue
                /\ UNCHANGED reg
                /\ Reply(c, IF r.ret THEN "activated" ELSE "activated_before", <<>>).ok
    /\ tokenSent' = IF args = <<ACTIVATION_TOKEN>> THEN tokenSent \cup {c} ELSE tokenSent
    /\ BesideRun
    /\ UNCHANGED normVars

\* The reply of /status.
status_reply(c) ==
    IF ~is_user_activated(file, c)
    THEN Reply(c, "not_activated", <<>>)
    ELSE LET user_info == get_user_info(file, c)
             activated_at == IF Truthy(user_info)
                             THEN Get(user_info, "activated_at", PyStr(<<"N/A">>))
                             ELSE PyStr(<<"N/A">>)
         IN  Reply(c, "status", <<activated_at>>)

status_command(c) ==
    /\ BotFree
    /\ status_reply(c).ok
    /\ BesideRun
    /\ UNCHANGED <<storageVars, normVars, tokenSent>>

\* The replies of a text that is no command: one, or none once activated.
unknown_replies(c) ==
    IF ~is_user_activated(file, c) THEN <<Reply(c, "needs_activation", <<>>)>> ELSE <<>>

unknown_message(c) ==
    /\ BotFree
    /\ Len(unknown_replies(c)) <= 1
    /\ BesideRun
    /\ UNCHANGED <<storageVars, normVars, tokenSent>>

\* update_command up to its call of get_all_alerts.
update_command(c) ==
    /\ pc = "idle"
    /\ IF ~is_user_activated(file, c)
       THEN /\ sent' = <<Reply(c, "not_activated", <<>>)>>
            /\ NoRun
       ELSE /\ sent' = <<Reply(c, "checking", <<>>)>>
            /\ caller' = [kind |-> "update", chat |-> c, chat_ids |-> {}]
            /\ StartRun
    /\ UNCHANGED <<storageVars, normVars, tokenSent>>

\* update_command after get_all_alerts: the report, or the except branch.
update_reply ==
    /\ caller.kind = "update"
    /\ pc \in {"returned", "raised"}
    /\ IF pc = "returned"
       THEN /\ report' = format_alerts_report(all_alerts)
            /\ sent' = Append(sent, Reply(caller.chat, "report", report'))
       ELSE /\ sent' = Append(sent, Reply(caller.chat, "error", <<raised>>))
            /\ UNCHANGED report
    /\ pc' = "idle"
    /\ caller' = NoCaller
    /\ UNCHANGED <<page, repos, idx, all_alerts, raised, reqLog, pending>>
    /\ UNCHANGED <<storageVars, normVars, tokenSent>>

----------------------------------------------------------------------------
(* monitor.py: the daily job, a process of its own started by cron *)

\* send_daily_report up to its call of get_all_alerts.
send_daily_report ==
    /\ pc = "idle"
    /\ sent' = <<>>
    /\ LET chat_ids == get_all_activated_chat_ids(file)
       IN  IF chat_ids = {}
           THEN NoRun
           ELSE /\ caller' = [kind |-> "daily", chat |-> 0, chat_ids |-> chat_ids]
                /\ StartRun
    /\ UNCHANGED <<storageVars, normVars, tokenSent>>

\* send_daily_report after get_all_alerts: the report is rendered, or the
\* outer except branch logs the error and the job ends.
daily_report ==
    /\ caller.kind = "daily"
    /\ pc \in {"returned", "raised"}
    /\ IF pc = "returned"
       THEN /\ report' = format_alerts_report(all_alerts)
            /\ pending' = caller.chat_ids
            /\ pc' = "deliver"
            /\ UNCHANGED caller
       ELSE /\ pc' = "idle"
            /\ caller' = NoCaller
            /\ UNCHANGED <<report, pending>>
    /\ UNCHANGED <<page, repos, idx, all_alerts, raised, reqLog, sent>>
    /\ UNCHANGED <<storageVars, normVars, tokenSent>>

\* `for chat_id in chat_ids` without the inner try: the first send_message
\* that raises ends the loop and the job.
daily_send_until_failure ==
    /\ pc = "deliver"
    /\ \E c \in pending, ok \in BOOLEAN :
          /\ sent' = Append(sent, [chat |-> c, kind |-> "report", text |-> report, ok |-> ok])
          /\ pending' = pending \ {c}
          /\ pc' = IF pending = {c} \/ ~ok THEN "idle" ELSE "deliver"
          /\ caller' = IF pending = {c} \/ ~ok THEN NoCaller ELSE caller
    /\ UNCHANGED <<page, repos, idx, all_alerts, raised, reqLog, report>>
    /\ UNCHANGED <<storageVars, normVars, tokenSent>>

\* One iteration of `for chat_id in chat_ids`; send_message succeeds or raises.
daily_send ==
    /\ pc = "deliver"
    /\ \E c \in pending, ok \in BOOLEAN :
          /\ sent' = Append(sent, [chat |-> c, kind |-> "report", text |-> report, ok |-> ok])
          /\ pending' = pending \ {c}
          /\ pc' = IF pending = {c} THEN "idle" ELSE "deliver"
          /\ caller' = IF pending = {c} THEN NoCaller ELSE caller
    /\ UNCHANGED <<page, repos, idx, all_alerts, raised, reqLog, report>>
    /\ UNCHANGED <<storageVars, normVars, tokenSent>>

----------------------------------------------------------------------------
(* The program *)

InitStorage ==
    /\ file = NoFile
    /\ clock = 0
    /\ regCalls = [c \in ChatIds |-> 0]
    /\ lastCall = [op |-> "none", chat_id |-> 0, ret |-> FALSE]
    /\ reg = NoCall
    /\ returnedTrue = {}

InitRun ==
    /\ caller = NoCaller
    /\ pc = "idle"
    /\ page = 1
    /\ repos = <<>>
    /\ idx = 0
    /\ all_alerts = EmptyBuckets
    /\ raised = None
    /\ reqLog = <<>>
    /\ report = <<>>
    /\ pending = {}
    /\ sent = <<>>

Init ==
    /\ InitStorage
    /\ InitRun
    /\ rawAlert = EmptyDict
    /\ normalized = None
    /\ tokenSent = {}

Next ==
    \/ \E c \in ChatIds : start_command(c)
    \/ \E c \in ChatIds, args \in ArgLists : activate_command(c, args)
    \/ \E c \in ChatIds : status_command(c)
    \/ \E c \in ChatIds : unknown_message(c)
    \/ \E c \in ChatIds : update_command(c)
    \/ update_reply
    \/ send_daily_report
    \/ daily_report
    \/ daily_send
    \/ ListPage
    \/ FetchRepo

Spec == Init /\ [][Next]_vars

\* requests.get blocks until the page request is answered or fails: a
\* listing under way gets its next answer.
SpecListing == Spec /\ WF_vars(ListPage)

----------------------------------------------------------------------------
(* The registry interface on its own: any sequence of calls of storage.py *)

CallActivateUser(c, username) ==
    /\ regCalls[c] < MaxRegisterCalls
    /\ LET r == activate_user(file, clock, c, username)
       IN  /\ file' = r.file
           /\ clock' = r.clock
           /\ regCalls' = [regCalls EXCEPT ![c] = @ + 1]
           /\ lastCall' = [op |-> "activate_user", chat_id |-> c, ret |-> r.ret,
                          username |-> username]
           /\ returnedTrue' = IF r.ret THEN returnedTrue \cup {c} ELSE returnedTrue
           /\ UNCHANGED reg
    /\ UNCHANGED <<runVars, normVars, tokenSent>>

CallIsUserActivated(c) ==
    /\ lastCall' = [op |-> "is_user_activated", chat_id |-> c, ret |-> is_user_activated(file, c)]
    /\ UNCHANGED <<file, clock, regCalls, reg, returnedTrue, runVars, normVars, tokenSent>>

CallGetAllActivatedChatIds ==
    /\ lastCall' = [op |-> "get_all_activated_chat_ids", chat_id |-> 0,
                    ret |-> get_all_activated_chat_ids(file)]
    /\ UNCHANGED <<file, clock, regCalls, reg, returnedTrue, runVars, normVars, tokenSent>>

CallGetUserInfo(c) ==
    /\ lastCall' = [op |-> "get_user_info", chat_id |-> c, ret |-> get_user_info(file, c)]
    /\ UNCHANGED <<file, clock, regCalls, reg, returnedTrue, runVars, normVars, tokenSent>>

NextStorage ==
    \/ \E c \in ChatIds, username \in Usernames : CallActivateUser(c, username)
    \/ \E c \in ChatIds : CallIsUserActivated(c)
    \/ CallGetAllActivatedChatIds
    \/ \E c \in ChatIds : CallGetUserInfo(c)

SpecStorage == Init /\ [][NextStorage]_vars

----------------------------------------------------------------------------
(* The registry file between two processes.  The bot runs activate_user    *)
(* without an await in it, so one registration at a time, but its file     *)
(* operations are separate system calls; the daily job, a process of its   *)
(* own, reads the file at any moment.                                       *)

\* activate_user up to its call of save_users: load_users, the membership
\* test and the new record.
ActivateLoad(c, username) ==
    /\ reg.pc = "none"
    /\ regCalls[c] < MaxRegisterCalls
    /\ regCalls' = [regCalls EXCEPT ![c] = @ + 1]
    /\ LET data == load_users(file)
           users == UsersOf(data)
           chat_id_str == IntToStr(c)
           record == PyDict([username |-> username, activated_at |-> clock + 1])
           users2 == [k \in DOMAIN users \cup {chat_id_str} |->
                         IF k = chat_id_str THEN record ELSE users[k]]
       IN  IF chat_id_str \in DOMAIN users
           THEN /\ lastCall' = [op |-> "activate_user", chat_id |-> c, ret |-> FALSE,
                                username |-> username]
                /\ UNCHANGED <<clock, reg>>
           ELSE /\ reg' = [pc |-> "open", chat_id |-> c, username |-> username,
                           data |-> [users |-> users2]]
                /\ clock' = clock + 1
                /\ UNCHANGED lastCall
    /\ UNCHANGED <<file, returnedTrue, runVars, normVars, tokenSent>>

\* save_users: open(STORAGE_FILE, "w") truncates the file.
SaveOpen ==
    /\ reg.pc = "open"
    /\ file' = PartialFile
    /\ reg' = [reg EXCEPT !.pc = "dump"]
    /\ UNCHANGED <<clock, regCalls, lastCall, returnedTrue, runVars, normVars, tokenSent>>

\* save_users: json.dump and the close of the file; activate_user returns True.
SaveDump ==
    /\ reg.pc = "dump"
    /\ file' = save_users(reg.data)
    /\ lastCall' = [op |-> "activate_user", chat_id |-> reg.chat_id, ret |-> TRUE,
                    username |-> reg.username]
    /\ returnedTrue' = returnedTrue \cup {reg.chat_id}
    /\ reg' = NoCall
    /\ UNCHANGED <<clock, regCalls, runVars, normVars, tokenSent>>

\* monitor.py: chat_ids = get_all_activated_chat_ids() of the daily job; the
\* ids known to be registered at that moment are noted beside the result.
JobListIds ==
    /\ lastCall' = [op |-> "get_all_activated_chat_ids", chat_id |-> 0,
                    ret |-> get_all_activated_chat_ids(file), known |-> returnedTrue]
    /\ UNCHANGED <<file, clock, regCalls, reg, returnedTrue, runVars, normVars, tokenSent>>

\* bot.py: is_user_activated(chat_id) at the head of a handler; the bot is
\* in no activate_user call then.
BotIsUserActivated(c) ==
    /\ reg.pc = "none"
    /\ lastCall' = [op |-> "is_user_activated", chat_id |-> c,
                    ret |-> is_user_activated(file, c), known |-> returnedTrue]
    /\ UNCHANGED <<file, clock, regCalls, reg, returnedTrue, runVars, normVars, tokenSent>>

NextRegistry ==
    \/ \E c \in ChatIds, username \in Usernames : ActivateLoad(c, username)
    \/ SaveOpen
    \/ SaveDump
    \/ JobListIds
    \/ \E c \in ChatIds : BotIsUserActivated(c)

SpecRegistry == Init /\ [][NextRegistry]_vars

----------------------------------------------------------------------------
(* Normalization on its own: every raw alert of RawAlerts is converted *)

InitNormalize ==
    /\ InitStorage
    /\ InitRun
    /\ rawAlert \in RawAlerts
    /\ normalized = None
    /\ tokenSent = {}

Normalize ==
    /\ normalized = None
    /\ normalized' = NormalizeAlert(Repo1.owner.login, Repo1.name, rawAlert)
    /\ UNCHANGED <<rawAlert, storageVars, runVars, tokenSent>>

SpecNormalize == InitNormalize /\ [][Normalize]_vars

----------------------------------------------------------------------------
(* Properties.  What the histories say about the run under way or last ended. *)

Range(q) == {q[i] : i \in DOMAIN q}

\* The log entries of the alert requests, in the order they were made.
AlertEntries == SelectSeq(reqLog, LAMBDA e : e.kind = "alerts")

\* A request that got no 2xx answer.
Failed(e) == e.resp.kind = "error" \/ e.resp.status # 200

ListingFailed == \E i \in DOMAIN reqLog : reqLog[i].kind = "repos" /\ Failed(reqLog[i])

ListingDone ==
    \E i \in DOMAIN reqLog :
        reqLog[i].kind = "repos" /\ ~Failed(reqLog[i]) /\ reqLog[i].resp.body = <<>>

\* get_all_alerts is over: it returned or it raised.
CallEnded == reqLog # <<>> /\ pc \notin {"list", "fetch"}

\* The caller rendered a report and handed it to Telegram (or is about to).
Rendered == pc = "deliver" \/ \E i \in DOMAIN sent : sent[i].kind = "report"

\* Every alert of the four buckets, bucket after bucket.
InBuckets == Flatten([i \in DOMAIN SeverityOrder |-> all_alerts.v[SeverityOrder[i]]])

\* The alerts of the buckets that carry the repository name of log entry e.
FromRepo(e) == SelectSeq(InBuckets, LAMBDA a : a.repo_name = FullName(e.owner, e.name))

\* How often x occurs in q.
Count(q, x) == Cardinality({i \in DOMAIN q : q[i] = x})

\* q and r hold the same elements, each as often.
SameBag(q, r) ==
    /\ Len(q) = Len(r)
    /\ \A x \in Range(q) \cup Range(r) : Count(q, x) = Count(r, x)

\* The normalized alerts of the response of log entry e.
Normalized(e) ==
    [i \in DOMAIN e.resp.body |-> NormalizeAlert(e.owner, e.name, e.resp.body[i])]

\* C1: per-repository failure isolation.  Whenever get_all_alerts is over
\* after a successful listing in which some repository's alert request was
\* answered 403, 404, another error status or no answer at all, the call
\* returned, no bucket holds an alert of a failing repository, and the buckets
\* hold exactly the alerts of every other repository of the listing.
C1_FailureIsolation ==
    (CallEnded /\ ListingDone /\ \E i \in DOMAIN AlertEntries : Failed(AlertEntries[i]))
    => /\ ~IsExc(raised)
       /\ Len(AlertEntries) = Len(repos)
       /\ \A i \in DOMAIN AlertEntries :
             LET e == AlertEntries[i]
             IN  IF Failed(e) THEN FromRepo(e) = <<>>
                 ELSE SameBag(FromRepo(e), Normalized(e))

\* C2: a failing page of the repository listing aborts the run: the call
\* ends with the error, no alert request was made, and the caller renders and
\* delivers no report.
C2_ListingFailureAborts ==
    ListingFailed
    => /\ IsExc(raised)
       /\ pc \in {"raised", "idle"}
       /\ AlertEntries = <<>>
       /\ report = <<>>
       /\ ~Rendered

\* C2 witness: the listing failed on a later page after a page of
\* repositories was received, and the /update handler has answered.
C2_Witness ==
    /\ ListingFailed
    /\ repos # <<>>
    /\ page > 1
    /\ pc = "idle"
    /\ \E i \in DOMAIN sent : sent[i].kind = "error"


\* The value of key k of raw object obj, None when obj is no object, the key
\* is missing or its value is null.
Field(obj, k) == IF obj.t = "dict" /\ k \in DOMAIN obj.v THEN obj.v[k] ELSE None

Absent(x) == x.t = "None"

\* C3: normalization never raises, and every optional field or nested object
\* of the raw alert that is missing or null gives its documented default:
\* package name "unknown", severity "unknown", CVE "", advisory id "",
\* summary placeholder, patched version "N/A", URL "", creation timestamp "".
C3_NormalizeDefaults ==
    normalized # None
    => /\ ~IsExc(normalized)
       /\ LET advisory == Field(rawAlert, "security_advisory")
              vulnerability == Field(rawAlert, "security_vulnerability")
              package == Field(vulnerability, "package")
          IN  /\ Absent(Field(package, "name")) => normalized.package_name = PyStr(S_unknown)
              /\ Absent(Field(advisory, "severity")) => normalized.severity = PyStr(S_unknown)
              /\ Absent(Field(advisory, "cve_id")) => normalized.cve_id = EmptyStr
              /\ Absent(Field(advisory, "ghsa_id")) => normalized.ghsa_id = EmptyStr
              /\ Absent(Field(advisory, "summary"))
                    => normalized.summary = PyStr(<<"No description">>)
              /\ Absent(Field(vulnerability, "first_patched_version"))
                    => normalized.patched_version = PyStr(<<"N/A">>)
              /\ Absent(Field(rawAlert, "html_url")) => normalized.url = EmptyStr
              /\ Absent(Field(rawAlert, "created_at")) => normalized.created_at = EmptyStr

\* C4: only listing failures propagate: whatever the alert requests answer
\* and whichever fields of the alert payloads are missing or null, an
\* exception leaves get_all_alerts only when a listing page request failed.
C4_OnlyListingFailuresPropagate == IsExc(raised) => ListingFailed

\* C5: insert-if-absent.  activate_user returns True on the first call for a
\* chat id and False on every later one; from the first call on the id is
\* reported by is_user_activated, get_all_activated_chat_ids and
\* get_user_info, and each of these calls returns accordingly.
C5_InsertIfAbsent ==
    /\ lastCall.op = "activate_user"
          => (lastCall.ret <=> regCalls[lastCall.chat_id] = 1)
    /\ lastCall.op = "is_user_activated"
          => (lastCall.ret <=> regCalls[lastCall.chat_id] >= 1)
    /\ lastCall.op = "get_all_activated_chat_ids"
          => lastCall.ret = {c \in ChatIds : regCalls[c] >= 1}
    /\ lastCall.op = "get_user_info"
          => (lastCall.ret # None <=> regCalls[lastCall.chat_id] >= 1)
    /\ \A c \in ChatIds :
          regCalls[c] >= 1
          => /\ is_user_activated(file, c)
             /\ c \in get_all_activated_chat_ids(file)
             /\ get_user_info(file, c).t = "dict"
             /\ "activated_at" \in DOMAIN get_user_info(file, c).v

\* C5 witness: activate_user was called a second time for a chat id and
\* returned False.
C5_Witness ==
    /\ lastCall.op = "activate_user"
    /\ lastCall.chat_id = -100
    /\ lastCall.ret = FALSE
    /\ regCalls[-100] = 2
    /\ regCalls[42] = 1


\* The alerts the alert requests of the run produced, in fetch order.
Inputs ==
    Flatten([i \in DOMAIN AlertEntries |->
                get_dependabot_alerts(AlertEntries[i].owner, AlertEntries[i].name,
                                      AlertEntries[i].resp).v])

\* C6: bucketing is a partition.  As long as no exception left the call, the
\* bucket set has exactly the keys critical, high, moderate and low, every
\* alert produced so far is in exactly one bucket exactly once, the buckets
\* hold nothing else, and their lengths add up to the number of alerts.
C6_BucketPartition ==
    ~IsExc(raised)
    => /\ DOMAIN all_alerts.v = SeverityKeys
       /\ Len(InBuckets) = Len(Inputs)
       /\ Range(InBuckets) = Range(Inputs)
       /\ \A a \in Range(Inputs) : Count(InBuckets, a) = 1

\* C6 witness: the call returned three non-empty buckets, one holding alerts
\* of both repositories.
C6_Witness ==
    /\ pc = "returned"
    /\ Len(all_alerts.v[S_critical]) = 1
    /\ Len(all_alerts.v[S_moderate]) = 1
    /\ Len(all_alerts.v[S_low]) = 5
    /\ Len(Inputs) = 8

\* The upper-case form of a lower-case letter.
UpperOf(c) ==
    IF \E i \in DOMAIN Lowers : Lowers[i] = c
    THEN Uppers[CHOOSE i \in DOMAIN Lowers : Lowers[i] = c]
    ELSE c

\* s spells the lower-case word key, whatever the case of its letters.
Spells(s, key) ==
    /\ Len(s) = Len(key)
    /\ \A i \in DOMAIN key : s[i] = key[i] \/ s[i] = UpperOf(key[i])

\* C7: severity mapping.  Every alert of a bucket has a severity that spells
\* the bucket's key in some letter case, or, spelling none of the four keys
\* (the empty string, "unknown", any other string), lies in the low bucket.
C7_SeverityMapping ==
    \A k \in DOMAIN all_alerts.v :
        \A j \in DOMAIN all_alerts.v[k] :
            LET s == all_alerts.v[k][j].severity
            IN  /\ s.t = "str"
                /\ IF \E key \in SeverityKeys : Spells(s.v, key)
                   THEN Spells(s.v, k)
                   ELSE k = S_low

\* C7 witness: the call returned "CRITICAL" under critical and the empty
\* string, "unknown" and "bogus" under low.
C7_Witness ==
    /\ pc = "returned"
    /\ \E j \in DOMAIN all_alerts.v[S_critical] :
          all_alerts.v[S_critical][j].severity = PyStr(<<"C","R","I","T","I","C","A","L">>)
    /\ \E j \in DOMAIN all_alerts.v[S_high] :
          all_alerts.v[S_high][j].severity = PyStr(<<"h","I","g","H">>)
    /\ \E j \in DOMAIN all_alerts.v[S_low] : all_alerts.v[S_low][j].severity = EmptyStr
    /\ \E j \in DOMAIN all_alerts.v[S_low] : all_alerts.v[S_low][j].severity = PyStr(S_unknown)
    /\ \E j \in DOMAIN all_alerts.v[S_low] :
          all_alerts.v[S_low][j].severity = PyStr(<<"b","o","g","u","s">>)

\* The line of the report that heads the section of severity k (0: none).
SectionStart(k) ==
    IF \E i \in DOMAIN report : report[i].l = "section" /\ report[i].name = severity_names[k]
    THEN CHOOSE i \in DOMAIN report : report[i].l = "section" /\ report[i].name = severity_names[k]
    ELSE 0

\* The lines of the section headed by line i, up to the next section or the
\* closing recommendation.
SectionBody(i) ==
    LET stops == {j \in DOMAIN report : j > i /\ report[j].l \in {"section", "recommendation"}}
        stop == IF stops = {} THEN Len(report) + 1
                ELSE CHOOSE j \in stops : \A m \in stops : j <= m
    IN  SubSeq(report, i + 1, stop - 1)

LinesOf(body, kind) == SelectSeq(body, LAMBDA x : x.l = kind)

\* C8: per-section truncation.  In a rendered report the section of a bucket
\* of n > 0 alerts states n in its header, shows exactly min(n, 10) entries,
\* those of the first min(n, 10) alerts of the bucket in bucket order, and
\* ends with the line "... and n - 10 more" if and only if n > 10.
C8_SectionTruncation ==
    Rendered
    => \A k \in SeverityKeys :
          LET bucket == all_alerts.v[k]
              n == Len(bucket)
              m == IF n < 10 THEN n ELSE 10
              start == SectionStart(k)
              body == SectionBody(start)
              first == SubSeq(bucket, 1, m)
          IN  n > 0
              => /\ start > 0
                 /\ report[start].n = n
                 /\ Len(LinesOf(body, "package")) = m
                 /\ LinesOf(body, "package")
                       = [i \in 1..m |-> [l |-> "package", v |-> first[i].package_name]]
                 /\ LinesOf(body, "repo")
                       = [i \in 1..m |-> [l |-> "repo", v |-> first[i].repo_name]]
                 /\ LinesOf(body, "link")
                       = [i \in DOMAIN SelectSeq(first, LAMBDA a : Truthy(a.url)) |->
                             [l |-> "link", v |-> SelectSeq(first, LAMBDA a : Truthy(a.url))[i].url]]
                 /\ (n > 10 <=> LinesOf(body, "more") # <<>>)
                 /\ n > 10 => body[Len(body)] = [l |-> "more", n |-> n - 10]

\* C8 witness: a report was rendered for 11 critical alerts: 10 entries and
\* "1 more".
C8_Witness ==
    /\ Rendered
    /\ Len(all_alerts.v[S_critical]) = 11
    /\ Len(LinesOf(SectionBody(SectionStart(S_critical)), "package")) = 10
    /\ [l |-> "more", n |-> 1] \in Range(report)

\* C9: alert fetching is paginated: every open alert of a repository whose
\* alert request succeeded is in the buckets, also beyond the first page of 100.
C9_AllAlertPagesFetched ==
    ~IsExc(raised)
    => \A i \in DOMAIN AlertEntries :
          ~Failed(AlertEntries[i])
          => Len(FromRepo(AlertEntries[i])) = Len(AlertEntries[i].resp.open)

\* C10: a report rendered from four empty buckets is exactly the all-clear
\* message; one rendered from any alert is not, holds no all-clear line, and
\* states in its header the sum of the four bucket lengths.
C10_AllClear ==
    Rendered
    => IF Len(InBuckets) = 0
       THEN report = AllClear
       ELSE /\ report # AllClear
            /\ \A i \in DOMAIN report : report[i].l # "all_clear"
            /\ LinesOf(report, "found") = <<[l |-> "found", n |-> Len(InBuckets)]>>
            /\ Len(report) >= 2
            /\ report[2].l = "found"

\* C10 witness: the all-clear message was rendered after a run over listed
\* repositories that produced no alert.
C10_Witness ==
    /\ Rendered
    /\ report = AllClear
    /\ Len(repos) = 2
    /\ Len(InBuckets) = 0

\* The four keys by falling priority, as the report is to show them.
Priority == <<S_critical, S_high, S_moderate, S_low>>

\* C11: section order.  A report rendered from any alert holds one section
\* for each non-empty bucket and none for an empty one, the sections stand in
\* the order critical, high, moderate, low, and the one recommendation line
\* is the last line, after the last section.
C11_SectionOrder ==
    (Rendered /\ report # AllClear)
    => LET sections == LinesOf(report, "section")
           nonempty == SelectSeq(Priority, LAMBDA k : all_alerts.v[k] # <<>>)
       IN  /\ [i \in DOMAIN sections |-> sections[i].name]
                 = [i \in DOMAIN nonempty |-> severity_names[nonempty[i]]]
           /\ Len(LinesOf(report, "recommendation")) = 1
           /\ report[Len(report)].l = "recommendation"
           /\ \A i \in DOMAIN report : report[i].l = "section" => i < Len(report)

\* C11 witness: a report with the sections CRITICAL, HIGH and LOW, in this
\* order, and none for the empty moderate bucket.
C11_Witness ==
    /\ Rendered
    /\ all_alerts.v[S_moderate] = <<>>
    /\ [i \in DOMAIN LinesOf(report, "section") |-> LinesOf(report, "section")[i].name]
          = <<severity_names[S_critical], severity_names[S_high], severity_names[S_low]>>
    /\ report[Len(report)].l = "recommendation"

\* The log entries of the listing page requests, in the order they were made.
RepoEntries == SelectSeq(reqLog, LAMBDA e : e.kind = "repos")

\* The page request of entry e was answered with repositories.
Served(e) == ~Failed(e) /\ e.resp.body # <<>>

\* The state part of C12.
ListingPages ==
    /\ \A i \in DOMAIN RepoEntries : RepoEntries[i].page = i
    /\ \A i \in DOMAIN RepoEntries : i < Len(RepoEntries) => Served(RepoEntries[i])
    /\ repos = Flatten([i \in DOMAIN SelectSeq(RepoEntries, Served) |->
                           SelectSeq(RepoEntries, Served)[i].resp.body])
    /\ pc = "list" => /\ page = Len(RepoEntries) + 1
                      /\ \A i \in DOMAIN RepoEntries : Served(RepoEntries[i])
    /\ (RepoEntries # <<>> /\ ~Served(RepoEntries[Len(RepoEntries)])) => pc # "list"

\* C12: listing pagination.  get_user_repos requests the pages 1, 2, 3, ...
\* in this order, makes no request after the first page that is empty or
\* fails, and holds the concatenation of the pages served before it, in page
\* order, nothing dropped and nothing twice; a listing under way ends once
\* the source answers with an empty or a failing page.
C12_ListingPagination ==
    /\ []ListingPages
    /\ (pc = "list") ~> (pc # "list")

\* C12 witness: the listing ended on the empty third page after two pages
\* of one repository each.
C12_Witness ==
    /\ Len(RepoEntries) = 3
    /\ RepoEntries[3].page = 3
    /\ RepoEntries[3].resp.body = <<>>
    /\ ~Failed(RepoEntries[3])
    /\ repos = RepoEntries[1].resp.body \o RepoEntries[2].resp.body
    /\ Len(repos) = 2
    /\ pc = "fetch"

\* The alerts repository i of the listing has contributed: those of the
\* answer to its alert request, in the order of the answer; none before the
\* request, none when it failed.
Discovered(i) ==
    LET mine == SelectSeq(AlertEntries, LAMBDA e : e.owner = repos[i].owner.login
                                                    /\ e.name = repos[i].name)
    IN  IF mine = <<>> \/ Failed(mine[1]) THEN <<>> ELSE Normalized(mine[1])

\* Every alert of the run, by the position of its repository in the listing
\* and then by its position in the repository's answer.
Discovery == Flatten([i \in DOMAIN repos |-> Discovered(i)])

\* C13: bucket order is discovery order.  As long as no exception left the
\* call, each bucket is the discovery sequence restricted to the alerts of
\* the bucket: of two alerts of a bucket the one of the repository listed
\* earlier comes first, and of two of one repository the one earlier in the
\* repository's answer.
C13_BucketOrder ==
    ~IsExc(raised)
    => \A k \in DOMAIN all_alerts.v :
          all_alerts.v[k] = SelectSeq(Discovery, LAMBDA a : a \in Range(all_alerts.v[k]))

\* C13 witness: the listing was web, api; the call returned a low bucket
\* that starts with the alert of acme/web and goes on with four of acme/api.
C13_Witness ==
    /\ pc = "returned"
    /\ repos = <<Repo2, Repo1>>
    /\ Len(all_alerts.v[S_low]) = 5
    /\ all_alerts.v[S_low][1].repo_name = FullName(Repo2.owner.login, Repo2.name)
    /\ \A j \in 2..5 : all_alerts.v[S_low][j].repo_name = FullName(Repo1.owner.login, Repo1.name)
    /\ all_alerts.v[S_low][2].severity = PyStr(S_unknown)
    /\ all_alerts.v[S_low][5].severity = PyStr(S_low)

\* Log entries d and e are requests of the same resource.
SameRequest(d, e) ==
    d.kind = e.kind /\ d.page = e.page /\ d.owner = e.owner /\ d.name = e.name

\* C14: sequential, retry-free fetching.  Within one call of get_all_alerts
\* every listing page request precedes every alert request and no alert
\* request is made before the listing is complete; the alert requests go to
\* the listed repositories one by one in listing order; once the call is
\* over after a complete listing every listed repository has got exactly
\* one; and no request is made again after it failed.
C14_SequentialFetching ==
    /\ AlertEntries # <<>> => ListingDone
    /\ \A i, j \in DOMAIN reqLog :
          (reqLog[i].kind = "alerts" /\ reqLog[j].kind = "repos") => j < i
    /\ Len(AlertEntries) <= Len(repos)
    /\ \A i \in DOMAIN AlertEntries :
          /\ AlertEntries[i].owner = repos[i].owner.login
          /\ AlertEntries[i].name = repos[i].name
    /\ (CallEnded /\ ListingDone) => Len(AlertEntries) = Len(repos)
    /\ \A i, j \in DOMAIN reqLog :
          (i < j /\ Failed(reqLog[i])) => ~SameRequest(reqLog[i], reqLog[j])

\* The records of the registry file f.
Records(f) == UsersOf(load_users(f))

\* A step that calls activate_user.
ActivateStep == regCalls' # regCalls

\* C15: registration records are never updated.  Every step keeps every
\* record of the file as it is; a call of activate_user for a registered id
\* returns False and leaves the file as it was, whatever display name is
\* passed, and takes no timestamp; a call for a new id adds the record of
\* that id and no other; a step that is no such call leaves the file alone.
C15_RecordsNeverUpdated ==
    [][/\ \A k \in DOMAIN Records(file) :
             k \in DOMAIN Records(file') /\ Records(file')[k] = Records(file)[k]
       /\ ActivateStep
             => LET k == IntToStr(lastCall'.chat_id)
                IN  IF k \in DOMAIN Records(file)
                    THEN ~lastCall'.ret /\ file' = file /\ clock' = clock
                    ELSE /\ lastCall'.ret
                         /\ DOMAIN Records(file') = DOMAIN Records(file) \cup {k}
                         /\ Records(file')[k].v.username = lastCall'.username
       /\ ~ActivateStep => file' = file]_vars

\* C15 witness: activate_user was called with the name bob for chat 42,
\* registered before as ann, after chat -100 had registered too; it returned
\* False and the record still says ann and the first timestamp.
C15_Witness ==
    /\ lastCall.op = "activate_user"
    /\ lastCall.chat_id = 42
    /\ ~lastCall.ret
    /\ lastCall.username = PyStr(<<"bob">>)
    /\ get_user_info(file, 42) = PyDict([username |-> PyStr(<<"ann">>), activated_at |-> 1])
    /\ get_user_info(file, -100) = PyDict([username |-> None, activated_at |-> 2])

\* C16: activation gating.  A chat id is in the registry only if the chat
\* has sent /activate with the activation token as its one argument; the
\* pipeline runs for /update, and /update answers with its progress note, a
\* report or an error, only for a chat that is registered; the refusal of
\* /update goes to an unregistered chat and no request was made for it.
C16_ActivationGating ==
    /\ \A c \in ChatIds : is_user_activated(file, c) => c \in tokenSent
    /\ caller.kind = "update" => is_user_activated(file, caller.chat)
    /\ \A i \in DOMAIN sent :
          /\ sent[i].kind \in {"checking", "report", "error"}
                => is_user_activated(file, sent[i].chat)
          /\ sent[i].kind = "not_activated"
                => /\ ~is_user_activated(file, sent[i].chat)
                   /\ reqLog = <<>>
                   /\ caller.kind = "none"

\* C16 witness: chat 42 sent the token, is registered and got a report from
\* /update; chat -100 never sent the token alone and is not registered.
C16_Witness ==
    /\ tokenSent = {42}
    /\ is_user_activated(file, 42)
    /\ ~is_user_activated(file, -100)
    /\ \E i \in DOMAIN sent : sent[i].kind = "report" /\ sent[i].chat = 42
    /\ reqLog # <<>>

\* The chats of the messages handed to Telegram.
SentTo(q) == {q[i].chat : i \in DOMAIN q}

\* The daily job at work: what holds of it in every state.
DailyJob ==
    caller.kind = "daily"
    => /\ caller.chat_ids # {}
       /\ caller.chat_ids \subseteq get_all_activated_chat_ids(file)
       /\ Cardinality({i \in DOMAIN reqLog : reqLog[i].kind = "repos" /\ reqLog[i].page = 1}) <= 1
       /\ pc # "deliver" => sent = <<>> /\ report = <<>>
       /\ pc = "deliver"
             => /\ ~IsExc(raised)
                /\ ListingDone
                /\ report = format_alerts_report(all_alerts)
                /\ \A i \in DOMAIN sent : sent[i].kind = "report" /\ sent[i].text = report
                /\ \A i, j \in DOMAIN sent : i # j => sent[i].chat # sent[j].chat
                /\ SentTo(sent) \cup pending = caller.chat_ids
                /\ SentTo(sent) \cap pending = {}

\* A step that starts the daily job: with an empty registry it is over at
\* once, no request made and no message sent; otherwise the run is for the
\* ids of the registry.
DailyStart ==
    send_daily_report
    => IF get_all_activated_chat_ids(file) = {}
       THEN caller'.kind = "none" /\ pc' = "idle" /\ reqLog' = <<>> /\ sent' = <<>>
       ELSE /\ caller' = [kind |-> "daily", chat |-> 0,
                          chat_ids |-> get_all_activated_chat_ids(file)]
            /\ pc' = "list" /\ reqLog' = <<>> /\ sent' = <<>>

\* A step that ends the daily job after its report was rendered: the text
\* went once to each id, whether or not a delivery failed.
DailyDelivered ==
    (caller.kind = "daily" /\ caller'.kind = "none" /\ pc = "deliver")
    => /\ SentTo(sent') = caller.chat_ids
       /\ Len(sent') = Cardinality(caller.chat_ids)
       /\ \A i \in DOMAIN sent' : sent'[i].kind = "report" /\ sent'[i].text = report
       /\ pending' = {}

C18_NeverLostOrHidden ==
    /\ lastCall.op = "get_all_activated_chat_ids" => lastCall.known \subseteq lastCall.ret
    /\ (lastCall.op = "is_user_activated" /\ lastCall.chat_id \in lastCall.known)
          => lastCall.ret
    /\ file.t = "json" => returnedTrue \subseteq get_all_activated_chat_ids(file)

====
